---------------------------- MODULE Spec2Model ----------------------------
(* A model of the two leaf utilities of create-tsi:                        *)
(*   helpers/env-variables.ts  renderEnvVar, getVectorDBEnvs,              *)
(*                             createBackendEnvFile, createFrontendEnvFile *)
(*   helpers/copy.ts           copy                                        *)
(* A JavaScript string is a sequence of atoms; the newline is always an    *)
(* atom of its own (NL), so that splitting and replacing on "\n" is        *)
(* computed and not assumed.  An optional field is a record [def, s]:      *)
(* def = FALSE is undefined, def = TRUE carries the string s.              *)
EXTENDS Integers, Sequences, FiniteSets, TLC

VARIABLES
    envVars,   \* renderEnvVar: the array being reduced
    idx,       \* renderEnvVar: number of entries already folded
    acc,       \* renderEnvVar: the accumulator `prev` of reduce
    rpc,       \* renderEnvVar: "fold" | "done" | "off"
    envFile,   \* the .env file at root: [exists, content]
    envCall,   \* last create*EnvFile call: [fn, model, result]
    pc,        \* copy: "off" | "idle" | "thrown" | "glob" | "copying"
    args,      \* copy: the arguments of the call
    tasks,     \* copy: the per-file async callbacks, by matched path
    outcome,   \* copy: the promise copy() returned: [state, error]
    files,     \* file system: absolute path -> content
    dirs,      \* file system: the directories
    finished,  \* matched paths in the order their copyFile completed
    globCalls, \* number of glob expansions started
    faults     \* number of I/O failures the environment has raised

envState == <<envVars, idx, acc, rpc, envFile, envCall>>

copyState == <<pc, args, tasks, outcome, files, dirs, finished, globCalls, faults>>

vars == <<envState, copyState>>

(***************************************************************************)
(* Strings and optional fields                                             *)
(***************************************************************************)
NL == "\n"

Undefined == [def |-> FALSE, s |-> <<>>]

Some(str) == [def |-> TRUE, s |-> str]

\* JavaScript truthiness of an optional string: undefined and "" are falsy.
Truthy(f) == f.def /\ f.s # <<>>

\* a || b on optional strings
OrElse(f, g) == IF Truthy(f) THEN f ELSE g

RECURSIVE ReplaceAllNL(_)
\* description.replaceAll("\n", "\n# ")
ReplaceAllNL(str) ==
    IF str = <<>> THEN <<>>
    ELSE (IF Head(str) = NL THEN <<NL, "#", " ">> ELSE <<Head(str)>>)
         \o ReplaceAllNL(Tail(str))

(***************************************************************************)
(* renderEnvVar (env-variables.ts 19-33)                                   *)
(***************************************************************************)
\* variant: the description is emitted without replaceAll
DescriptionPartRaw(env) ==
    IF Truthy(env.description)
    THEN <<"#", " ">> \o env.description.s \o <<NL>>
    ELSE <<>>

\* `# ${env.description.replaceAll("\n", "\n# ")}\n` or ""
DescriptionPart(env) ==
    IF Truthy(env.description)
    THEN <<"#", " ">> \o ReplaceAllNL(env.description.s) \o <<NL>>
    ELSE <<>>

\* variant: the value is tested for being defined, not for being truthy
NamePartDefined(env) ==
    IF Truthy(env.name)
    THEN IF env.value.def
         THEN env.name.s \o <<"=">> \o env.value.s \o <<NL, NL>>
         ELSE <<"#", " ">> \o env.name.s \o <<"=", NL, NL>>
    ELSE <<>>

\* env.name ? (env.value ? `${name}=${value}\n\n` : `# ${name}=\n\n`) : ""
NamePart(env) ==
    IF Truthy(env.name)
    THEN IF Truthy(env.value)
         THEN env.name.s \o <<"=">> \o env.value.s \o <<NL, NL>>
         ELSE <<"#", " ">> \o env.name.s \o <<"=", NL, NL>>
    ELSE <<>>

\* variant: the entry's text is put before the accumulator
ReducerPrepend(prev, env) == DescriptionPart(env) \o NamePart(env) \o prev

\* the reduce callback: prev + description part + name part
Reducer(prev, env) == prev \o DescriptionPart(env) \o NamePart(env)

RECURSIVE Reduce(_, _)
Reduce(prev, list) ==
    IF list = <<>> THEN prev ELSE Reduce(Reducer(prev, Head(list)), Tail(list))

renderEnvVar(list) == Reduce(<<>>, list)


(***************************************************************************)
(* Paths (node:path, posix).  A path string is [abs, segs]: whether it     *)
(* starts with "/" and its segments between separators; "" is the         *)
(* relative path with no segment.                                          *)
(***************************************************************************)
Rel(segs) == [abs |-> FALSE, segs |-> segs]

AbsPath(segs) == [abs |-> TRUE, segs |-> segs]

EmptyPath == Rel(<<>>)

\* JavaScript truthiness of a path string: only "" is falsy
NonEmpty(p) == p.abs \/ p.segs # <<>>

RECURSIVE NormalizeSegs(_, _, _)
\* normalizeString: "." is dropped, ".." removes the segment before it, is
\* dropped at the root and is kept at the front of a relative path
NormalizeSegs(done, rest, abs) ==
    IF rest = <<>> THEN done
    ELSE LET s == Head(rest)
         IN  IF s = "." THEN NormalizeSegs(done, Tail(rest), abs)
             ELSE IF s = ".."
             THEN IF done # <<>> /\ done[Len(done)] # ".."
                  THEN NormalizeSegs(SubSeq(done, 1, Len(done) - 1), Tail(rest), abs)
                  ELSE IF abs THEN NormalizeSegs(done, Tail(rest), abs)
                       ELSE NormalizeSegs(Append(done, ".."), Tail(rest), abs)
             ELSE NormalizeSegs(Append(done, s), Tail(rest), abs)

\* path.normalize; the empty result of a relative path is "."
Normalize(p) ==
    LET segs == NormalizeSegs(<<>>, p.segs, p.abs)
    IN  IF ~p.abs /\ segs = <<>> THEN Rel(<<".">>) ELSE [abs |-> p.abs, segs |-> segs]

RECURSIVE JoinRaw(_)
\* the non-empty arguments of path.join put together with "/"
JoinRaw(parts) ==
    IF parts = <<>> THEN EmptyPath
    ELSE IF ~NonEmpty(Head(parts)) THEN JoinRaw(Tail(parts))
    ELSE [abs |-> Head(parts).abs,
          segs |-> Head(parts).segs \o JoinRaw(Tail(parts)).segs]

\* path.join(...parts)
Join(parts) == Normalize(JoinRaw(parts))

\* path.dirname
Dirname(p) ==
    IF Len(p.segs) <= 1
    THEN IF p.abs THEN AbsPath(<<>>) ELSE Rel(<<".">>)
    ELSE [abs |-> p.abs, segs |-> SubSeq(p.segs, 1, Len(p.segs) - 1)]

\* path.basename
Basename(p) == IF p.segs = <<>> THEN EmptyPath ELSE Rel(<<p.segs[Len(p.segs)]>>)

\* process.cwd()
ProcessCwd == AbsPath(<<"w">>)

\* path.resolve(a, b): from the right until an absolute path is made,
\* then from process.cwd()
Resolve(a, b) ==
    LET raw == IF b.abs THEN b
               ELSE IF a.abs THEN AbsPath(a.segs \o b.segs)
               ELSE AbsPath(ProcessCwd.segs \o a.segs \o b.segs)
    IN  AbsPath(NormalizeSegs(<<>>, raw.segs, TRUE))

\* the file a path string names for the file system
Locate(p) == Resolve(EmptyPath, p).segs

(***************************************************************************)
(* The file system and the calls copy makes to it                          *)
(***************************************************************************)
NoError == [code |-> "none", syscall |-> "none", path |-> <<>>]

Error(code, syscall, path) == [code |-> code, syscall |-> syscall, path |-> path]

Prefixes(segs) == {SubSeq(segs, 1, k) : k \in 0..Len(segs)}

Parent(segs) == SubSeq(segs, 1, Len(segs) - 1)

\* fs.promises.mkdir(dir, { recursive: true }): creates the missing chain,
\* succeeds on an existing directory, fails where a file is in the way
Mkdir(fileSet, dirSet, dir) ==
    IF \E q \in Prefixes(dir) : q \in fileSet
    THEN [ok |-> FALSE, dirs |-> dirSet,
          err |-> Error(IF dir \in fileSet THEN "EEXIST" ELSE "ENOTDIR", "mkdir", dir)]
    ELSE [ok |-> TRUE, dirs |-> dirSet \cup Prefixes(dir), err |-> NoError]

COPYFILE_EXCL == "COPYFILE_EXCL"

\* fs.promises.copyFile(from, to, mode) is not atomic.  Its first half
\* opens from, then opens to for writing, creating it or emptying the file
\* that is there; with COPYFILE_EXCL it fails if to exists; when from and to
\* are one file nothing is written
CopyFileOpen(fs, dirSet, from, to, mode) ==
    IF from \notin DOMAIN fs
    THEN [ok |-> FALSE, same |-> FALSE, files |-> fs,
          err |-> Error("ENOENT", "copyfile", from)]
    ELSE IF to \in dirSet
    THEN [ok |-> FALSE, same |-> FALSE, files |-> fs,
          err |-> Error("EISDIR", "copyfile", to)]
    ELSE IF Parent(to) \notin dirSet
    THEN [ok |-> FALSE, same |-> FALSE, files |-> fs,
          err |-> Error("ENOENT", "copyfile", to)]
    ELSE IF mode = COPYFILE_EXCL /\ to \in DOMAIN fs
    THEN [ok |-> FALSE, same |-> FALSE, files |-> fs,
          err |-> Error("EEXIST", "copyfile", to)]
    ELSE IF from = to
    THEN [ok |-> TRUE, same |-> TRUE, files |-> fs, err |-> NoError]
    ELSE [ok |-> TRUE, same |-> FALSE, err |-> NoError,
          files |-> [q \in DOMAIN fs \cup {to} |-> IF q = to THEN <<>> ELSE fs[q]]]

\* bytes written from offset 0 over what the file holds
Overlay(old, new) == new \o SubSeq(old, Len(new) + 1, Len(old))

\* the second half of copyFile: the content of from is written to the open
\* destination from its start
CopyFileWrite(fs, from, to) ==
    [q \in DOMAIN fs |-> IF q = to THEN Overlay(fs[to], fs[from]) ELSE fs[q]]

RECURSIVE MatchSegs(_, _)
\* one pattern against one relative path, segment by segment: "*" is any
\* one name, "**" any number of directories, anything else is literal
MatchSegs(pat, r) ==
    IF pat = <<>> THEN r = <<>>
    ELSE IF Head(pat) = "**"
    THEN \/ MatchSegs(Tail(pat), r)
         \/ r # <<>> /\ Head(r) # ".." /\ MatchSegs(pat, Tail(r))
    ELSE IF Head(pat) = "*"
    THEN r # <<>> /\ Head(r) # ".." /\ MatchSegs(Tail(pat), Tail(r))
    ELSE r # <<>> /\ Head(r) = Head(pat) /\ MatchSegs(Tail(pat), Tail(r))

Ups(k) == [i \in 1..k |-> ".."]

\* the relative paths, from root, of the files of the file system
RelativeFiles(fileSet, root) ==
    {Ups(k) \o SubSeq(f, Len(root) - k + 1, Len(f)) :
        <<k, f>> \in {kf \in (0..Len(root)) \X fileSet :
                        /\ Len(kf[2]) > Len(root) - kf[1]
                        /\ SubSeq(kf[2], 1, Len(root) - kf[1])
                             = SubSeq(root, 1, Len(root) - kf[1])
                        /\ (kf[1] > 0 => kf[2][Len(root) - kf[1] + 1] # root[Len(root) - kf[1] + 1])}}

\* glob(source, { cwd, dot: true, absolute: false, stats: false }): the files
\* matching any pattern, as paths relative to cwd (process.cwd() without it)
Glob(source, cwd, fileSet) ==
    {Rel(r) : r \in {q \in RelativeFiles(fileSet, Resolve(EmptyPath, cwd).segs) :
                       \E i \in 1..Len(source) : MatchSegs(source[i].segs, q)}}

(***************************************************************************)
(* copy (copy.ts 18-54)                                                    *)
(***************************************************************************)
\* an optional path-valued argument: undefined, or a string
NoPath == [def |-> FALSE, p |-> EmptyPath]

Given(p) == [def |-> TRUE, p |-> p]

\* truthiness of an optional string argument: undefined and "" are falsy
Supplied(o) == o.def /\ NonEmpty(o.p)

\* const source = typeof src === "string" ? [src] : src
Source(src) == IF src.isString THEN <<src.str>> ELSE src.arr

\* variant: only the destination is checked
ValidateDestOnly(source, dest) == Supplied(dest)

\* the guard of `throw new TypeError(...)`, negated
Validate(source, dest) == ~(Len(source) = 0 \/ ~Supplied(dest))

Upper(name) ==
    CASE name = "a" -> "A" [] name = "b.txt" -> "B.TXT"
      [] name = "c.txt" -> "C.TXT" [] name = "s.txt" -> "S.TXT"
      [] OTHER -> name

\* the rename option applied to a base name; undefined is `identity`
Rename(rename, basename) ==
    CASE rename = "undefined" -> basename
      [] rename = "upper" -> Rel(<<Upper(basename.segs[1])>>)
      [] rename = "const" -> Rel(<<"a">>)
      [] rename = "climb" -> Rel(<<"..", "e">>)

\* parents = true by default
Parents(opts) == IF opts.parents = "undefined" THEN TRUE ELSE opts.parents = "true"

\* variant: the working directory is not applied to the destination
DestAsGiven(a) == a.dest.p

\* const destRelativeToCwd = cwd ? path.resolve(cwd, dest) : dest
DestRelativeToCwd(a) ==
    IF Supplied(a.cwd) THEN Resolve(a.cwd.p, a.dest.p) ELSE a.dest.p

\* const from = cwd ? path.resolve(cwd, p) : p
From(a, p) == IF Supplied(a.cwd) THEN Resolve(a.cwd.p, p) ELSE p

\* variant: rename is applied to every segment of the matched path
ToRenameDirs(a, p) ==
    IF Parents(a)
    THEN Join(<<DestRelativeToCwd(a),
                Rel([i \in 1..Len(Dirname(p).segs) |->
                        Rename(a.rename, Rel(<<Dirname(p).segs[i]>>)).segs[1]]),
                Rename(a.rename, Basename(p))>>)
    ELSE Join(<<DestRelativeToCwd(a), Rename(a.rename, Basename(p))>>)

\* const to = parents ? path.join(destRelativeToCwd, dirname, basename)
\*                    : path.join(destRelativeToCwd, basename)
To(a, p) ==
    IF Parents(a)
    THEN Join(<<DestRelativeToCwd(a), Dirname(p), Rename(a.rename, Basename(p))>>)
    ELSE Join(<<DestRelativeToCwd(a), Rename(a.rename, Basename(p))>>)

\* variant: copyFile is asked not to overwrite
CopyFileModeExcl == COPYFILE_EXCL

\* the mode argument of copyFile: copy.ts passes none, the default
CopyFileMode == "default"

Pending == [state |-> "pending", error |-> NoError]

Resolved == [state |-> "resolved", error |-> NoError]

Rejected(err) == [state |-> "rejected", error |-> err]

Stage(ts, p) == ts[p].stage

Settled(ts) == \A p \in DOMAIN ts : Stage(ts, p) \in {"done", "failed"}

\* variant: the first callback to complete settles the promise
PromiseRace(prev, ts, p) ==
    IF prev.state # "pending" THEN prev
    ELSE IF Stage(ts, p) = "failed" THEN Rejected(ts[p].err)
    ELSE IF Stage(ts, p) = "done" THEN Resolved
    ELSE prev

\* variant: failures are swallowed once every callback has settled
PromiseAllSettled(prev, ts, p) ==
    IF prev.state # "pending" THEN prev
    ELSE IF Settled(ts) THEN Resolved
    ELSE prev

\* Promise.all over the callbacks, after callback p has moved on: rejects
\* with the first rejection, resolves when every callback has resolved
PromiseAll(prev, ts, p) ==
    IF prev.state # "pending" THEN prev
    ELSE IF Stage(ts, p) = "failed" THEN Rejected(ts[p].err)
    ELSE IF \A q \in DOMAIN ts : Stage(ts, q) = "done" THEN Resolved
    ELSE prev

(***************************************************************************)
(* Inputs of copy: the tree it runs in and the arguments it is given       *)
(***************************************************************************)
MaxFaults == 1

Files0 ==
    [q \in {<<"w", "b.txt">>, <<"w", "a", "b.txt">>, <<"w", "a", "c.txt">>,
            <<"s.txt">>, <<"o", "b.txt">>} |->
        CASE q = <<"w", "b.txt">> -> <<"1">>
          [] q = <<"w", "a", "b.txt">> -> <<"2", "2">>
          [] q = <<"w", "a", "c.txt">> -> <<"3", "3", "3">>
          [] q = <<"s.txt">> -> <<"4">>
          [] q = <<"o", "b.txt">> -> <<"o", "o", "o", "o">>]

Dirs0 == {<<>>, <<"w">>, <<"w", "a">>, <<"o">>}

StringSrc(pat) == [isString |-> TRUE, str |-> pat, arr |-> <<>>]

ArraySrc(pats) == [isString |-> FALSE, str |-> EmptyPath, arr |-> pats]

Srcs ==
    { StringSrc(Rel(<<"*">>)), StringSrc(EmptyPath), ArraySrc(<<>>),
      ArraySrc(<<Rel(<<"**">>)>>), ArraySrc(<<Rel(<<"a", "*">>)>>),
      ArraySrc(<<Rel(<<"..", "*">>)>>), ArraySrc(<<Rel(<<"zzz">>)>>),
      ArraySrc(<<Rel(<<"a", "*">>), Rel(<<"*">>)>>) }

Dests == {NoPath, Given(EmptyPath), Given(Rel(<<"out">>)), Given(Rel(<<"n", "out">>)),
          Given(AbsPath(<<"o">>))}

Cwds == {NoPath, Given(EmptyPath), Given(Rel(<<"a">>)), Given(AbsPath(<<"w">>))}

Renames == {"undefined", "upper", "const", "climb"}

ParentsOpts == {"undefined", "true", "false"}

NoArgs == [src |-> ArraySrc(<<>>), dest |-> NoPath, cwd |-> NoPath,
           rename |-> "undefined", parents |-> "undefined"]

NoTasks == [q \in {} |-> 0]

(***************************************************************************)
(* Operations of copy                                                      *)
(***************************************************************************)
\* copy(src, dest, options): the argument check, then glob is awaited
Copy ==
    /\ pc = "idle"
    /\ \E src \in Srcs, dest \in Dests, cwd \in Cwds, rename \in Renames,
          parents \in ParentsOpts :
         /\ args' = [src |-> src, dest |-> dest, cwd |-> cwd,
                     rename |-> rename, parents |-> parents]
         /\ IF Validate(Source(src), dest)
            THEN /\ pc' = "glob"
                 /\ globCalls' = globCalls + 1
                 /\ outcome' = Pending
            ELSE /\ pc' = "thrown"
                 /\ globCalls' = globCalls
                 /\ outcome' = Rejected(Error("TypeError", "copy", <<>>))
    /\ UNCHANGED <<tasks, files, dirs, finished, faults, envState>>

\* the async callback of sourceFiles.map, run to its first await: the
\* paths are computed and mkdir is called
Launch(a, p) ==
    [from |-> From(a, p), to |-> To(a, p), stage |-> "mkdir", err |-> NoError,
     mkdirCalls |-> 1, copyFileCalls |-> 0]

\* glob returns: every matched file's callback is started, Promise.all of
\* no promise resolves at once; glob rejects an empty pattern string
GlobReturn ==
    /\ pc = "glob"
    /\ IF \E i \in 1..Len(Source(args.src)) : ~NonEmpty(Source(args.src)[i])
       THEN /\ pc' = "thrown"
            /\ outcome' = Rejected(Error("TypeError", "glob", <<>>))
            /\ tasks' = tasks
       ELSE LET sourceFiles == Glob(Source(args.src), args.cwd.p, DOMAIN files)
            IN  /\ pc' = "copying"
                /\ tasks' = [p \in sourceFiles |-> Launch(args, p)]
                /\ outcome' = IF sourceFiles = {} THEN Resolved ELSE Pending
    /\ UNCHANGED <<args, files, dirs, finished, globCalls, faults, envState>>

\* glob fails on the file system
GlobFail ==
    /\ pc = "glob"
    /\ faults < MaxFaults
    /\ faults' = faults + 1
    /\ pc' = "thrown"
    /\ outcome' = Rejected(Error("EIO", "glob", <<>>))
    /\ UNCHANGED <<args, tasks, files, dirs, finished, globCalls, envState>>

\* await mkdir(path.dirname(to), { recursive: true }) completes; on success
\* the callback goes on to call copyFile
MkdirReturn(p) ==
    /\ pc = "copying"
    /\ tasks[p].stage = "mkdir"
    /\ LET r == Mkdir(DOMAIN files, dirs, Locate(Dirname(tasks[p].to)))
           ts == [tasks EXCEPT ![p] =
                    IF r.ok
                    THEN [@ EXCEPT !.stage = "copyFile", !.copyFileCalls = @ + 1]
                    ELSE [@ EXCEPT !.stage = "failed", !.err = r.err]]
       IN  /\ dirs' = r.dirs
           /\ tasks' = ts
           /\ outcome' = PromiseAll(outcome, ts, p)
    /\ UNCHANGED <<pc, args, files, finished, globCalls, faults, envState>>

\* mkdir fails on the file system
MkdirFail(p) ==
    /\ pc = "copying"
    /\ tasks[p].stage = "mkdir"
    /\ faults < MaxFaults
    /\ faults' = faults + 1
    /\ LET ts == [tasks EXCEPT ![p] =
                    [@ EXCEPT !.stage = "failed",
                              !.err = Error("EIO", "mkdir", Locate(Dirname(tasks[p].to)))]]
       IN  /\ tasks' = ts
           /\ outcome' = PromiseAll(outcome, ts, p)
    /\ UNCHANGED <<pc, args, files, dirs, finished, globCalls, envState>>

\* copyFile(from, to) opens its two files; it is over at once when it
\* fails and when the two are one file
CopyFileOpened(p) ==
    /\ pc = "copying"
    /\ tasks[p].stage = "copyFile"
    /\ LET r == CopyFileOpen(files, dirs, Locate(tasks[p].from), Locate(tasks[p].to),
                             CopyFileMode)
           ts == [tasks EXCEPT ![p] =
                    IF ~r.ok THEN [@ EXCEPT !.stage = "failed", !.err = r.err]
                    ELSE IF r.same THEN [@ EXCEPT !.stage = "done"]
                    ELSE [@ EXCEPT !.stage = "writing"]]
       IN  /\ files' = r.files
           /\ finished' = IF r.ok /\ r.same THEN Append(finished, p) ELSE finished
           /\ tasks' = ts
           /\ outcome' = PromiseAll(outcome, ts, p)
    /\ UNCHANGED <<pc, args, dirs, globCalls, faults, envState>>

\* copyFile(from, to) has written the content and completes
CopyFileReturn(p) ==
    /\ pc = "copying"
    /\ tasks[p].stage = "writing"
    /\ LET ts == [tasks EXCEPT ![p] = [@ EXCEPT !.stage = "done"]]
       IN  /\ files' = CopyFileWrite(files, Locate(tasks[p].from), Locate(tasks[p].to))
           /\ finished' = Append(finished, p)
           /\ tasks' = ts
           /\ outcome' = PromiseAll(outcome, ts, p)
    /\ UNCHANGED <<pc, args, dirs, globCalls, faults, envState>>

\* copyFile fails on the file system before the destination is opened for
\* writing; the destination is as it was
CopyFileFail(p) ==
    /\ pc = "copying"
    /\ tasks[p].stage = "copyFile"
    /\ faults < MaxFaults
    /\ faults' = faults + 1
    /\ LET ts == [tasks EXCEPT ![p] =
                    [@ EXCEPT !.stage = "failed",
                              !.err = Error("EIO", "copyfile", Locate(tasks[p].to))]]
       IN  /\ tasks' = ts
           /\ outcome' = PromiseAll(outcome, ts, p)
    /\ UNCHANGED <<pc, args, files, dirs, finished, globCalls, envState>>

EnvOff ==
    /\ envVars = <<>>
    /\ idx = 0
    /\ acc = <<>>
    /\ rpc = "off"
    /\ envFile = [exists |-> FALSE, content |-> <<>>]
    /\ envCall = [fn |-> "none", model |-> Undefined, result |-> "none"]

CopyOff ==
    /\ pc = "off"
    /\ args = NoArgs
    /\ tasks = NoTasks
    /\ outcome = Pending
    /\ files = Files0
    /\ dirs = Dirs0
    /\ finished = <<>>
    /\ globCalls = 0
    /\ faults = 0

InitCopy ==
    /\ EnvOff
    /\ pc = "idle"
    /\ args = NoArgs
    /\ tasks = NoTasks
    /\ outcome = Pending
    /\ files = Files0
    /\ dirs = Dirs0
    /\ finished = <<>>
    /\ globCalls = 0
    /\ faults = 0

NextCopy ==
    \/ Copy
    \/ GlobReturn
    \/ GlobFail
    \/ \E p \in DOMAIN tasks : MkdirReturn(p)
    \/ \E p \in DOMAIN tasks : MkdirFail(p)
    \/ \E p \in DOMAIN tasks : CopyFileOpened(p)
    \/ \E p \in DOMAIN tasks : CopyFileReturn(p)
    \/ \E p \in DOMAIN tasks : CopyFileFail(p)

SpecCopy == InitCopy /\ [][NextCopy]_vars

(***************************************************************************)
(* Descriptors (type EnvVar, env-variables.ts 13-17)                       *)
(***************************************************************************)
Str(atom) == Some(<<atom>>)

EnvVar(n, d, v) == [name |-> n, description |-> d, value |-> v]

\* the object literal {}
EmptyEnv == EnvVar(Undefined, Undefined, Undefined)

DocsLine ==
    "For generating a connection URI, see https://docs.timescale.com/use-timescale/latest/services/create-a-service"

\* getVectorDBEnvs: the switch over the vector database identifier
getVectorDBEnvs(vectorDb) ==
    CASE vectorDb = "mongo" ->
           << EnvVar(Str("MONGO_URI"),
                     Some(<<DocsLine, NL, "The MongoDB connection URI.">>),
                     Undefined),
              EnvVar(Str("MONGODB_DATABASE"), Undefined, Undefined),
              EnvVar(Str("MONGODB_VECTORS"), Undefined, Undefined),
              EnvVar(Str("MONGODB_VECTOR_INDEX"), Undefined, Undefined) >>
      [] vectorDb = "pg" ->
           << EnvVar(Str("PG_CONNECTION_STRING"),
                     Some(<<DocsLine, NL, "The PostgreSQL connection string.">>),
                     Undefined) >>
      [] vectorDb = "pinecone" ->
           << EnvVar(Str("PINECONE_API_KEY"),
                     Some(<<"Configuration for Pinecone vector store", NL,
                            "The Pinecone API key.">>),
                     Undefined),
              EnvVar(Str("PINECONE_ENVIRONMENT"), Undefined, Undefined),
              EnvVar(Str("PINECONE_INDEX_NAME"), Undefined, Undefined) >>
      [] vectorDb = "milvus" ->
           << EnvVar(Str("MILVUS_ADDRESS"),
                     Str("The address of the Milvus server. Eg: http://localhost:19530"),
                     Str("http://localhost:19530")),
              EnvVar(Str("MILVUS_COLLECTION"),
                     Str("The name of the Milvus collection to store the vectors."),
                     Str("llamacollection")),
              EnvVar(Str("MILVUS_USERNAME"),
                     Str("The username to access the Milvus server."),
                     Undefined),
              EnvVar(Str("MILVUS_PASSWORD"),
                     Str("The password to access the Milvus server."),
                     Undefined) >>
      [] OTHER -> <<>>

\* Number.prototype.toString for a non-negative integer
Digit(d) ==
    CASE d = 0 -> "0" [] d = 1 -> "1" [] d = 2 -> "2" [] d = 3 -> "3"
      [] d = 4 -> "4" [] d = 5 -> "5" [] d = 6 -> "6" [] d = 7 -> "7"
      [] d = 8 -> "8" [] d = 9 -> "9"

RECURSIVE NumToString(_)
NumToString(n) ==
    IF n < 10 THEN <<Digit(n)>>
    ELSE NumToString(n \div 10) \o <<Digit(n % 10)>>

\* opts.port?.toString()
PortToString(port) == IF port.def THEN Some(NumToString(port.n)) ELSE Undefined

DefaultModel == Str("gpt-3.5-turbo")

TsiBaseUrl == Str("https://llm-server.llmhub.t-systems.net/v2")

\* const defaultEnvs = [...] of createBackendEnvFile
defaultEnvs(opts) ==
    << EnvVar(Str("MODEL"), Str("The name of LLM model to use."),
              OrElse(opts.model, DefaultModel)),
       EnvVar(Str("TSI_API_KEY"), Str("The T-Systems API key to use."),
              opts.openAiKey),
       EnvVar(Str("TSI_API_BASE_URL"), Str("The T-Systems API base URL."),
              TsiBaseUrl),
       EnvVar(Str("TSI_EMBED_API_BASE_URL"),
              Str("The T-Systems embedding API base URL."), TsiBaseUrl),
       EnvVar(Str("LLAMA_CLOUD_API_KEY"), Str("The Llama Cloud API key."),
              opts.llamaCloudKey) >>
    \o (IF Truthy(opts.vectorDb) THEN getVectorDBEnvs(opts.vectorDb.s[1]) ELSE <<>>)

SystemPromptDescription ==
    Some(<< "Custom system prompt.", NL, "Example:", NL, "SYSTEM_PROMPT=\"", NL,
            "We have provided context information below.", NL,
            "---------------------", NL, "{context_str}", NL,
            "---------------------", NL,
            "Given this information, please answer the question: {query_str}", NL,
            "\"" >>)

\* the fastapi branch of createBackendEnvFile
fastapiEnvs(opts) ==
    << EnvVar(Str("APP_HOST"), Str("The address to start the backend app."),
              Some(<<"0", ".", "0", ".", "0", ".", "0">>)),
       EnvVar(Str("APP_PORT"), Str("The port to start the backend app."),
              OrElse(PortToString(opts.port), Some(<<"8", "0", "0", "0">>))),
       EnvVar(Str("EMBEDDING_MODEL"), Str("Name of the embedding model to use."),
              opts.embeddingModel),
       EnvVar(Str("EMBEDDING_DIM"),
              Str("Dimension of the embedding model to use."), Undefined),
       EnvVar(Str("LLM_TEMPERATURE"),
              Str("Temperature for sampling from the model."), Undefined),
       EnvVar(Str("LLM_MAX_TOKENS"),
              Str("Maximum number of tokens to generate."), Undefined),
       EnvVar(Str("TOP_K"),
              Str("The number of similar embeddings to return when retrieving documents."),
              Str("3")),
       EnvVar(Str("SYSTEM_PROMPT"), SystemPromptDescription, Undefined) >>

\* the envVars array createBackendEnvFile renders
backendEnvVars(opts) ==
    IF opts.framework = Str("fastapi")
    THEN defaultEnvs(opts) \o fastapiEnvs(opts)
    ELSE defaultEnvs(opts) \o
         << IF opts.framework = Str("nextjs")
            THEN EnvVar(Str("NEXT_PUBLIC_MODEL"),
                        Str("The LLM model to use (hardcode to front-end artifact)."),
                        OrElse(opts.model, DefaultModel))
            ELSE EmptyEnv >>

\* const defaultFrontendEnvs = [...] of createFrontendEnvFile
defaultFrontendEnvs(opts) ==
    << EnvVar(Str("MODEL"), Str("The OpenAI model to use."), opts.model),
       EnvVar(Str("NEXT_PUBLIC_MODEL"),
              Str("The OpenAI model to use (hardcode to front-end artifact)."),
              opts.model),
       EnvVar(Str("NEXT_PUBLIC_CHAT_API"),
              Str("The backend API for chat endpoint."),
              IF Truthy(opts.customApiPath) THEN opts.customApiPath
              ELSE Str("http://localhost:8000/api/chat")) >>

(***************************************************************************)
(* Inputs of the environment-file operations                               *)
(***************************************************************************)
MaxEnvs == 2

MaxPortDigits == 1

Names == {Undefined, Some(<<>>), Str("X")}

Descriptions == {Undefined, Some(<<>>), Some(<<"a", NL>>), Some(<<"a", NL, "b">>)}

Values == {Undefined, Some(<<>>), Str("v")}

Descriptors == {EnvVar(n, d, v) : n \in Names, d \in Descriptions, v \in Values}

RECURSIVE SeqsUpTo(_, _)
SeqsUpTo(S, n) ==
    IF n = 0 THEN {<<>>}
    ELSE LET shorter == SeqsUpTo(S, n - 1)
         IN  shorter \cup {Append(q, x) : q \in {r \in shorter : Len(r) = n - 1}, x \in S}

EnvInputs == SeqsUpTo(Descriptors, MaxEnvs)

ModelNames == {Undefined, Some(<<>>), Str("llama")}

Ports == {[def |-> FALSE, n |-> 0]} \cup
         {[def |-> TRUE, n |-> k] : k \in {0} \cup {3 * 10 ^ e : e \in 1..MaxPortDigits}}

BackendOpts ==
    [ openAiKey : {Undefined, Str("sk")},
      llamaCloudKey : {Undefined, Str("lc")},
      vectorDb : {Undefined, Str("mongo"), Str("pg"), Str("pinecone"),
                  Str("milvus"), Str("none")},
      model : ModelNames,
      embeddingModel : {Undefined, Str("emb")},
      framework : {Undefined, Str("fastapi"), Str("nextjs"), Str("express")},
      port : Ports ]

FrontendOpts ==
    [ customApiPath : {Undefined, Some(<<>>), Str("/api")},
      model : ModelNames ]

NoFile == [exists |-> FALSE, content |-> <<>>]

OldFile == [exists |-> TRUE, content |-> <<"OLD", "=", "1", NL>>]

NoCall == [fn |-> "none", model |-> Undefined, result |-> "none"]

(***************************************************************************)
(* Operations                                                              *)
(***************************************************************************)
InitEnv ==
    /\ envVars = <<>>
    /\ idx = 0
    /\ acc = <<>>
    /\ rpc = "idle"
    /\ envFile \in {NoFile, OldFile}
    /\ envCall = NoCall
    /\ CopyOff

\* renderEnvVar(list): reduce starts with the initial value ""
RenderCall ==
    /\ rpc = "idle"
    /\ \E list \in EnvInputs : envVars' = list
    /\ idx' = 0
    /\ acc' = <<>>
    /\ rpc' = "fold"
    /\ UNCHANGED <<envFile, envCall, copyState>>

\* one call of the reduce callback, in array order
ReduceStep ==
    /\ rpc = "fold"
    /\ idx < Len(envVars)
    /\ acc' = Reducer(acc, envVars[idx + 1])
    /\ idx' = idx + 1
    /\ UNCHANGED <<envVars, rpc, envFile, envCall, copyState>>

\* reduce returns the accumulator
ReduceReturn ==
    /\ rpc = "fold"
    /\ idx = Len(envVars)
    /\ rpc' = "done"
    /\ UNCHANGED <<envVars, idx, acc, envFile, envCall, copyState>>

\* fs.writeFile(path.join(root, ".env"), content): replaces the file or fails
WriteFile(content, ok) ==
    IF ok THEN [exists |-> TRUE, content |-> content] ELSE envFile

CreateBackendEnvFile ==
    /\ rpc = "idle"
    /\ \E opts \in BackendOpts, ok \in BOOLEAN :
         /\ envFile' = WriteFile(renderEnvVar(backendEnvVars(opts)), ok)
         /\ envCall' = [fn |-> "backend", model |-> opts.model,
                        result |-> IF ok THEN "ok" ELSE "error"]
    /\ rpc' = "called"
    /\ UNCHANGED <<envVars, idx, acc, copyState>>

CreateFrontendEnvFile ==
    /\ rpc = "idle"
    /\ \E opts \in FrontendOpts, ok \in BOOLEAN :
         /\ envFile' = WriteFile(renderEnvVar(defaultFrontendEnvs(opts)), ok)
         /\ envCall' = [fn |-> "frontend", model |-> opts.model,
                        result |-> IF ok THEN "ok" ELSE "error"]
    /\ rpc' = "called"
    /\ UNCHANGED <<envVars, idx, acc, copyState>>

NextEnv ==
    \/ RenderCall
    \/ ReduceStep
    \/ ReduceReturn
    \/ CreateBackendEnvFile
    \/ CreateFrontendEnvFile

SpecEnv == InitEnv /\ [][NextEnv]_vars

(***************************************************************************)
(* Text helpers for the properties                                         *)
(***************************************************************************)
RECURSIVE SplitNL(_)
\* the lines of a text, as String.prototype.split("\n") gives them
SplitNL(str) ==
    IF \A i \in 1..Len(str) : str[i] # NL THEN <<str>>
    ELSE LET k == CHOOSE i \in 1..Len(str) :
                      str[i] = NL /\ \A j \in 1..(i - 1) : str[j] # NL
         IN  <<SubSeq(str, 1, k - 1)>> \o SplitNL(SubSeq(str, k + 1, Len(str)))

RECURSIVE Flatten(_)
Flatten(ss) == IF ss = <<>> THEN <<>> ELSE Head(ss) \o Flatten(Tail(ss))

HasLine(text, line) == \E i \in 1..Len(SplitNL(text)) : SplitNL(text)[i] = line

IsPrefix(p, str) == Len(p) <= Len(str) /\ SubSeq(str, 1, Len(p)) = p

\* the rule of the specification for one descriptor, line by line
CommentLines(env) ==
    IF Truthy(env.description)
    THEN Flatten([i \in 1..Len(SplitNL(env.description.s)) |->
                     <<"#", " ">> \o SplitNL(env.description.s)[i] \o <<NL>>])
    ELSE <<>>

NameLines(env) ==
    IF ~Truthy(env.name) THEN <<>>
    ELSE IF Truthy(env.value)
         THEN env.name.s \o <<"=">> \o env.value.s \o <<NL>> \o <<NL>>
         ELSE <<"#", " ">> \o env.name.s \o <<"=">> \o <<NL>> \o <<NL>>

RuleText(list) ==
    Flatten([i \in 1..Len(list) |-> CommentLines(list[i]) \o NameLines(list[i])])

Folded == SubSeq(envVars, 1, idx)

Rendering == rpc \in {"fold", "done"}

(***************************************************************************)
(* C6  renderEnvVar renders every descriptor by the rule: one "# " comment *)
(* line per newline-separated line of a (non-empty) description, then for  *)
(* a (non-empty) name the line NAME=value and a blank line when the value  *)
(* is truthy, else the placeholder "# NAME=" and a blank line and no       *)
(* assignment line; nothing for the name step without a name; descriptors  *)
(* with neither name nor description render to the empty string.           *)
(***************************************************************************)
C6_RenderRule ==
    Rendering =>
      /\ acc = RuleText(Folded)
      /\ (\A i \in 1..idx : ~Truthy(envVars[i].name) /\ ~Truthy(envVars[i].description))
           => acc = <<>>
      /\ \A i \in 1..idx :
           (Truthy(envVars[i].name) /\ ~Truthy(envVars[i].value)
              /\ \A j \in 1..idx : envVars[j].name = envVars[i].name => ~Truthy(envVars[j].value))
           => /\ HasLine(acc, <<"#", " ">> \o envVars[i].name.s \o <<"=">>)
              /\ \A k \in 1..Len(SplitNL(acc)) :
                   ~IsPrefix(envVars[i].name.s \o <<"=">>, SplitNL(acc)[k])

C6_Witness ==
    /\ rpc = "done"
    /\ Len(envVars) = 2
    /\ envVars[1] = EnvVar(Str("X"), Some(<<"a", NL, "b">>), Undefined)
    /\ envVars[2] = EnvVar(Undefined, Undefined, Str("v"))
    /\ acc = <<"#", " ", "a", NL, "#", " ", "b", NL, "#", " ", "X", "=", NL, NL>>

(***************************************************************************)
(* C7  The output is the concatenation, in input order, of each            *)
(* descriptor's own rendered text: entry i's text occupies the slice that  *)
(* starts after the texts of the entries before it, nothing is reordered   *)
(* and nothing is dropped, so two entries with one name are both rendered. *)
(***************************************************************************)
Own(i) == renderEnvVar(<<envVars[i]>>)

RECURSIVE OwnOffset(_)
OwnOffset(i) == IF i = 1 THEN 0 ELSE OwnOffset(i - 1) + Len(Own(i - 1))

C7_InputOrder ==
    rpc = "done" =>
      /\ Len(acc) = OwnOffset(Len(envVars) + 1)
      /\ \A i \in 1..Len(envVars) :
           SubSeq(acc, OwnOffset(i) + 1, OwnOffset(i) + Len(Own(i))) = Own(i)

C7_Witness ==
    /\ rpc = "done"
    /\ Len(envVars) = 2
    /\ Truthy(envVars[1].name)
    /\ envVars[1].name = envVars[2].name
    /\ Own(1) # Own(2)
    /\ acc = Own(1) \o Own(2)
    /\ acc # Own(2) \o Own(1)

(***************************************************************************)
(* C8  (as stated) For a descriptor with a name, a value that is present   *)
(* but empty is rendered differently from a value that is absent.          *)
(***************************************************************************)
WithValue(i, v) == [envVars EXCEPT ![i].value = v]

C8_EmptyDiffersFromAbsent ==
    rpc = "done" =>
      \A i \in 1..Len(envVars) :
        (Truthy(envVars[i].name) /\ envVars[i].value = Some(<<>>))
          => acc # renderEnvVar(WithValue(i, Undefined))

(***************************************************************************)
(* C8  (amended) For a descriptor with a name, a value that is present but *)
(* empty is rendered exactly as an absent value, as the placeholder        *)
(* "# NAME=" and a blank line; only a non-empty value is rendered          *)
(* differently from an absent one, as the assignment NAME=value.           *)
(***************************************************************************)
C8_EmptyRendersAsAbsent ==
    rpc = "done" =>
      \A i \in 1..Len(envVars) :
        Truthy(envVars[i].name) =>
          /\ envVars[i].value = Some(<<>>) =>
               /\ acc = renderEnvVar(WithValue(i, Undefined))
               /\ SubSeq(acc, OwnOffset(i + 1) - Len(envVars[i].name.s) - 4, OwnOffset(i + 1))
                    = <<"#", " ">> \o envVars[i].name.s \o <<"=", NL, NL>>
          /\ Truthy(envVars[i].value) =>
               /\ acc # renderEnvVar(WithValue(i, Undefined))
               /\ acc # renderEnvVar(WithValue(i, Some(<<>>)))

C8_Witness ==
    /\ rpc = "done"
    /\ Len(envVars) = 1
    /\ envVars[1] = EnvVar(Str("X"), Undefined, Some(<<>>))
    /\ acc = <<"#", " ", "X", "=", NL, NL>>

(***************************************************************************)
(* C9  After a successful createBackendEnvFile or createFrontendEnvFile    *)
(* the .env file holds the uncommented line MODEL=<name>, where <name> is  *)
(* the supplied model name, or the default literal when none is supplied.  *)
(***************************************************************************)
C9_ModelAssigned ==
    envCall.result = "ok" =>
      HasLine(envFile.content,
              <<"MODEL", "=">> \o OrElse(envCall.model, DefaultModel).s)

(***************************************************************************)
(* Helpers for the properties of copy                                      *)
(***************************************************************************)
InFlight(p) == tasks[p].stage \in {"mkdir", "copyFile", "writing"}

Done(p) == tasks[p].stage = "done"

Failed(p) == tasks[p].stage = "failed"

\* copyFile has opened the destination of p for writing
Writes(p) == tasks[p].stage \in {"writing", "done"}

Target(p) == Locate(tasks[p].to)

\* segs is root or lies below it
Within(root, segs) == Len(segs) >= Len(root) /\ SubSeq(segs, 1, Len(root)) = root

\* segs lies strictly below root
Below(root, segs) == Len(segs) > Len(root) /\ SubSeq(segs, 1, Len(root)) = root

\* the destination directory as the specification resolves it
DestinationRoot ==
    IF args.cwd.def /\ args.cwd.p # EmptyPath
    THEN IF args.dest.p.abs THEN args.dest.p
         ELSE IF args.cwd.p.abs THEN AbsPath(args.cwd.p.segs \o args.dest.p.segs)
         ELSE AbsPath(<<"w">> \o args.cwd.p.segs \o args.dest.p.segs)
    ELSE args.dest.p

PreserveDirs == args.parents # "false"

LastSeg(p) == p.segs[Len(p.segs)]

FrontSegs(p) == SubSeq(p.segs, 1, Len(p.segs) - 1)

Renamed(p) == Rename(args.rename, Rel(<<LastSeg(p)>>))

Changed == {q \in DOMAIN files : q \notin DOMAIN Files0 \/ files[q] # Files0[q]}

(***************************************************************************)
(* C1  (as stated) When the promise returned by copy() resolves or         *)
(* rejects, no per-file mkdir/copyFile task of the call is in flight.      *)
(***************************************************************************)
C1_SettledWhenReturned ==
    outcome.state # "pending" => \A p \in DOMAIN tasks : ~InFlight(p)

(***************************************************************************)
(* C1  (amended) copy() resolves only once every per-file task has         *)
(* completed, so nothing is in flight then; it rejects as soon as the      *)
(* first per-file mkdir or copyFile fails, with that failure's error and   *)
(* without waiting for the other tasks.                                    *)
(***************************************************************************)
C1_ResolvedWhenAllDone ==
    /\ outcome.state = "resolved" => \A p \in DOMAIN tasks : Done(p)
    /\ (\E p \in DOMAIN tasks : Failed(p)) => outcome.state = "rejected"
    /\ (outcome.state = "rejected" /\ pc = "copying") =>
         \E p \in DOMAIN tasks : Failed(p) /\ outcome.error = tasks[p].err

C1_Witness ==
    /\ outcome.state = "rejected"
    /\ \E p, q \in DOMAIN tasks :
         Failed(p) /\ tasks[q].stage = "copyFile" /\ Target(q) \notin DOMAIN files

(***************************************************************************)
(* C2  copy() with an empty source-pattern sequence, or an empty or        *)
(* undefined destination, fails with the TypeError of the argument check   *)
(* and has expanded no glob, started no mkdir or copyFile, and left the    *)
(* file system as it was.                                                  *)
(***************************************************************************)
C2_InvalidArguments ==
    (/\ pc # "idle"
     /\ \/ ~args.src.isString /\ args.src.arr = <<>>
        \/ ~args.dest.def
        \/ args.dest.p = EmptyPath)
    => /\ pc = "thrown"
       /\ outcome = Rejected(Error("TypeError", "copy", <<>>))
       /\ globCalls = 0
       /\ DOMAIN tasks = {}
       /\ files = Files0
       /\ dirs = Dirs0

C2_Witness ==
    /\ pc = "thrown"
    /\ \/ args.src = ArraySrc(<<>>) /\ args.dest = Given(Rel(<<"out">>))
       \/ args.src = ArraySrc(<<Rel(<<"**">>)>>) /\ args.dest = Given(EmptyPath)
    /\ outcome.error.code = "TypeError"
    /\ globCalls = 0

ExpectedTo(p) ==
    Normalize([abs |-> DestinationRoot.abs,
               segs |-> DestinationRoot.segs
                          \o (IF PreserveDirs THEN FrontSegs(p) ELSE <<>>)
                          \o Renamed(p).segs])

C4_DestinationPath ==
    /\ \A p \in DOMAIN tasks :
         /\ tasks[p].to = ExpectedTo(p)
         /\ Done(p) => Locate(ExpectedTo(p)) \in DOMAIN files
    /\ Changed \subseteq {Locate(ExpectedTo(p)) : p \in {q \in DOMAIN tasks : Writes(q)}}

C4_Witness ==
    /\ args.rename = "upper"
    /\ args.parents = "undefined"
    /\ args.dest = Given(Rel(<<"out">>))
    /\ ~args.cwd.def
    /\ Rel(<<"a", "b.txt">>) \in DOMAIN tasks
    /\ Done(Rel(<<"a", "b.txt">>))
    /\ <<"w", "out", "a", "B.TXT">> \in DOMAIN files
    /\ files[<<"w", "out", "a", "B.TXT">>] = <<"2", "2">>

(***************************************************************************)
(* C5  (as stated) copy() deletes no file, leaves every file outside the   *)
(* target paths as it was, and for any glob pattern and any rename         *)
(* function every target path, so every file or directory it creates or    *)
(* overwrites, lies under the resolved destination directory.              *)
(***************************************************************************)
C5_UnderDestination ==
    /\ \A q \in DOMAIN Files0 : q \in DOMAIN files
    /\ \A q \in DOMAIN Files0 :
         q \notin {Target(p) : p \in DOMAIN tasks} => files[q] = Files0[q]
    /\ \A p \in DOMAIN tasks : Below(Locate(DestinationRoot), Target(p))
    /\ \A q \in Changed : Below(Locate(DestinationRoot), q)
    /\ \A d \in dirs \ Dirs0 : Within(Locate(DestinationRoot), d)

(***************************************************************************)
(* C5  (amended) copy() deletes no file and leaves every file outside the  *)
(* target paths as it was; every file it creates or overwrites is the      *)
(* target path of a per-file copy whose copyFile got to write, and every   *)
(* directory it creates is an ancestor of a target path; a target lies     *)
(* under the resolved destination directory when the matched path has no   *)
(* ".." segment and rename returns a single file name, and the directories *)
(* created for such targets are the destination directory, its missing     *)
(* ancestors and directories under it.                                     *)
(***************************************************************************)
NoClimb(p) == \A i \in 1..Len(p.segs) : p.segs[i] # ".."

PlainName(r) == ~r.abs /\ Len(r.segs) = 1 /\ r.segs[1] \notin {".", ".."}

Confined(p) == NoClimb(p) /\ PlainName(Renamed(p))

C5_Confined ==
    /\ \A q \in DOMAIN Files0 : q \in DOMAIN files
    /\ \A q \in DOMAIN Files0 :
         q \notin {Target(p) : p \in DOMAIN tasks} => files[q] = Files0[q]
    /\ Changed \subseteq {Target(p) : p \in {q \in DOMAIN tasks : Writes(q)}}
    /\ \A d \in dirs \ Dirs0 : \E p \in DOMAIN tasks : Below(d, Target(p))
    /\ \A p \in DOMAIN tasks :
         Confined(p) => Below(Locate(DestinationRoot), Target(p))
    /\ (\A p \in DOMAIN tasks : Confined(p)) =>
         \A d \in dirs \ Dirs0 :
            Within(Locate(DestinationRoot), d) \/ Within(d, Locate(DestinationRoot))

C5_Witness ==
    /\ outcome.state = "resolved"
    /\ args.dest = Given(AbsPath(<<"o">>))
    /\ args.cwd = Given(Rel(<<"a">>))
    /\ args.rename = "undefined"
    /\ DOMAIN tasks = {Rel(<<"b.txt">>), Rel(<<"c.txt">>)}
    /\ files[<<"o", "b.txt">>] = <<"2", "2">>
    /\ <<"o", "c.txt">> \in DOMAIN files
    /\ \A q \in DOMAIN Files0 \ {<<"o", "b.txt">>} : files[q] = Files0[q]

(***************************************************************************)
(* C10  (as stated) Two matched files that map to one destination path do  *)
(* not make copy() fail, and once the per-file copies have settled the     *)
(* destination file holds the content of one colliding source, the one     *)
(* whose copyFile completed last.                                          *)
(***************************************************************************)
Colliding(p) == {q \in DOMAIN tasks : Target(q) = Target(p)}

Position(p) == CHOOSE i \in 1..Len(finished) : finished[i] = p

LastFinished(G) ==
    CHOOSE p \in G : Done(p) /\ \A q \in G : Done(q) => Position(q) <= Position(p)

SourceContent(p) == Files0[Locate(tasks[p].from)]

CollisionSettled(p) ==
    /\ Cardinality(Colliding(p)) >= 2
    /\ \A q \in Colliding(p) : ~InFlight(q)
    /\ \E q \in Colliding(p) : Done(q)

NoCollisionError(p) ==
    /\ (Failed(p) /\ tasks[p].err.syscall = "copyfile") =>
          tasks[p].err.code \in {"EIO", "EISDIR"}
    /\ (/\ faults = 0
        /\ Target(p) \notin dirs
        /\ Parent(Target(p)) \in dirs
        /\ \A r \in DOMAIN tasks : ~InFlight(r))
         => \A q \in Colliding(p) : Done(q)

=============================================================================
